---- MODULE Spec2Model ----
(***************************************************************************)
(* dio: the pull and push commands of the DBHub.io command line client.    *)
(*                                                                         *)
(* One database name is tracked.  The local state is the working-copy      *)
(* file, the cache directory .dio/<db>/db with its content-addressed       *)
(* entries, the metadata record, and the pointer files .dio/<db>/commit    *)
(* and .dio/<db>/branch.  The remote service answers every request with    *)
(* any response of its protocol.  A command runs in steps that are split   *)
(* at its network requests; every file operation of a step either          *)
(* succeeds or fails, and a failed write may leave any prefix of the data. *)
(***************************************************************************)
EXTENDS Integers, Sequences, FiniteSets, TLC

VARIABLES
    pc,          \* position of the running command: "idle" when none runs
    op,          \* the command that runs or ran last
    args,        \* the flags and configuration values it has read
    err,         \* its result
    calls,       \* the requests it has sent to the remote service
    meta,        \* the in-memory metadata (var meta); after the command,
                 \* the value it fetched last or passed to saveMetadata
    body,        \* pull: the downloaded bytes (body)
    reply,       \* push: the response body (body)
    prev,        \* the pull that ended just before the command started,
                 \* when it succeeded or stopped after writing content
    wc,          \* the working-copy file
    cacheDir,    \* whether .dio/<db>/db exists
    cache,       \* the entries of .dio/<db>/db: name -> bytes
    metaFile,    \* the persisted metadata record
    commitFile,  \* .dio/<db>/commit
    branchFile,  \* .dio/<db>/branch
    stamp        \* pull: the modification-date value handed to time.Parse

disk == <<wc, cacheDir, cache, metaFile, commitFile, branchFile>>
vars == <<pc, op, args, err, calls, meta, body, reply, prev,
          wc, cacheDir, cache, metaFile, commitFile, branchFile, stamp>>

---------------------------------------------------------------------------
(* Bounds and input sets *)

MaxBodyLen == 1

\* The bodies the remote can serve: <<>>, <<1>>, <<1,2>>, ...
Bodies == { [i \in 1..n |-> i] : n \in 0..MaxBodyLen }

BranchNames     == {"master", "dev"}
CommitIds       == {"c1", "c2"}
MetaBranchNames == {"master"}
MetaCommitIds   == {"c1"}

StatusOK       == 200
StatusCreated  == 201
StatusNotFound == 404

\* The statuses the remote answers with
Statuses == {StatusOK, StatusCreated, StatusNotFound, 409, 500}

---------------------------------------------------------------------------
(* Metadata *)

EmptyMap == [x \in {} |-> ""]

ZeroMeta == [ActiveBranch |-> "", Branches |-> EmptyMap, Commits |-> EmptyMap]

BranchMaps == UNION { [S -> MetaCommitIds] : S \in SUBSET MetaBranchNames }
CommitMaps == UNION { [S -> {"info"}] : S \in SUBSET MetaCommitIds }

\* Every metadata value the remote can send, valid or not.
RemoteMetas ==
    { [ActiveBranch |-> a, Branches |-> b, Commits |-> c] :
        a \in {""} \cup MetaBranchNames, b \in BranchMaps, c \in CommitMaps }

MetaResponses ==
    { [ok |-> FALSE, meta |-> ZeroMeta] } \cup
    { [ok |-> TRUE, meta |-> m] : m \in RemoteMetas }

SaveMetadataValidNoCheck(m) == TRUE

SaveMetadataValid(m) ==
    /\ \A b \in DOMAIN m.Branches : m.Branches[b] \in DOMAIN m.Commits
    /\ m.ActiveBranch # "" => m.ActiveBranch \in DOMAIN m.Branches

NoMetaFile == [exists |-> FALSE, meta |-> ZeroMeta]

\* MetadataStore.save: validate, then replace the record in one step.
saveMetadata(m, ioOk, old) ==
    IF ~SaveMetadataValid(m)
    THEN [err |-> "InvariantViolation", file |-> old]
    ELSE IF ~ioOk
    THEN [err |-> "IOError", file |-> old]
    ELSE [err |-> "", file |-> [exists |-> TRUE, meta |-> m]]

\* updateMetadata(db, save): fetch the remote metadata; store it when asked.
updateMetadata(mres, save, ioOk, old) ==
    IF ~mres.ok
    THEN [err |-> "MetadataError", meta |-> ZeroMeta, file |-> old]
    ELSE IF ~save
    THEN [err |-> "", meta |-> mres.meta, file |-> old]
    ELSE LET s == saveMetadata(mres.meta, ioOk, old)
         IN  [err |-> s.err, meta |-> mres.meta, file |-> s.file]

---------------------------------------------------------------------------
(* Digest and files *)

HexDigit == <<"0", "1", "2", "3", "4", "5", "6", "7",
              "8", "9", "a", "b", "c", "d", "e", "f">>

\* hex.EncodeToString of a one-byte digest
EncodeToString(n) == HexDigit[(n \div 16) + 1] \o HexDigit[(n % 16) + 1]

\* sha256.Sum256, narrowed to one byte; injective on the bodies of the model
RECURSIVE Sum256(_)
Sum256(b) ==
    IF b = <<>> THEN 7
    ELSE (Sum256(SubSeq(b, 1, Len(b) - 1)) * 31 + b[Len(b)] + 1) % 256

shaSum(b) == EncodeToString(Sum256(b))

CacheEntryNameOfPrefix(b) ==
    shaSum(IF b = <<>> THEN b ELSE SubSeq(b, 1, Len(b) - 1))

\* filepath.Join(".dio", db, "db", shaSum)
CacheEntryName(b) == shaSum(b)

WriteFileDataAppend(old, data) == old \o data

\* ioutil.WriteFile opens with O_TRUNC: the new content replaces the old
WriteFileData(old, data) == data

\* The outcomes of ioutil.WriteFile(name, data): the open fails; or the file
\* is truncated and n bytes are written, with or without an error.
WriteOutcomes(data) ==
    { [ok |-> TRUE, opened |-> TRUE, n |-> Len(data)],
      [ok |-> FALSE, opened |-> FALSE, n |-> 0] } \cup
    { [ok |-> FALSE, opened |-> TRUE, n |-> k] : k \in 0..Len(data) }

WriteFile(old, data, o) ==
    IF ~o.opened THEN old
    ELSE IF o.ok THEN WriteFileData(old, data)
    ELSE SubSeq(data, 1, o.n)

NoFile == [exists |-> FALSE, bytes |-> <<>>]

---------------------------------------------------------------------------
(* Results, requests, initial state *)

Result(kind) == [kind |-> kind, status |-> 0]

NoConfig == [isString |-> FALSE, val |-> ""]

ZeroArgs ==
    [branch |-> "", commit |-> "", msg |-> "", name |-> "", email |-> "",
     cfgAuthor |-> NoConfig, cfgEmail |-> NoConfig, force |-> FALSE]

Request(kind, branch, commit, msg, force) ==
    [kind |-> kind, branch |-> branch, commit |-> commit, msg |-> msg,
     force |-> force]

NoReply == [wellformed |-> FALSE, obj |-> EmptyMap]
NoPrev  == [ok |-> FALSE, stopped |-> FALSE, branch |-> "", commit |-> "",
            body |-> <<>>]

Init ==
    /\ pc = "idle"
    /\ op = "none"
    /\ args = ZeroArgs
    /\ err = Result("none")
    /\ calls = <<>>
    /\ meta = ZeroMeta
    /\ body = <<>>
    /\ reply = NoReply
    /\ prev = NoPrev
    /\ wc = NoFile
    /\ cacheDir = FALSE
    /\ cache = EmptyMap
    /\ metaFile = NoMetaFile
    /\ commitFile = [exists |-> FALSE, data |-> ""]
    /\ branchFile \in { [exists |-> FALSE, data |-> ""],
                        [exists |-> TRUE, data |-> "dev"] }
    /\ stamp = ""

---------------------------------------------------------------------------
(* pull *)

PullSelectorInvalidTypo(branch, commit) == branch # "" /\ commit = ""

\* pull: "Either a branch name or commit ID can be given.  Not both"
PullSelectorInvalid(branch, commit) == branch # "" /\ commit # ""

PullStoreMetadataEarly == TRUE

\* pull: the save argument of updateMetadata(db, false)
PullStoreMetadata == FALSE

BranchKnownAlways(m, branch) == TRUE

\* pull: _, ok := meta.Branches[pullCmdBranch]
BranchKnown(m, branch) == branch \in DOMAIN m.Branches

\* pull: _, ok := meta.Commits[pullCmdCommit]
CommitKnown(m, commit) == commit \in DOMAIN m.Commits

\* pull: the errors returned after the cache entry was written and before
\* saveMetadata has stored the record
StoppedAfterContent ==
    {"WriteError", "TimeParseError", "ChtimesError", "IOError",
     "InvariantViolation"}

\* pull, from the flags to the metadata request
PullStart ==
    /\ pc = "idle"
    /\ \E b \in {""} \cup BranchNames, c \in {"", "c1"} :
        /\ op' = "pull"
        /\ args' = [ZeroArgs EXCEPT !.branch = b, !.commit = c]
        /\ IF PullSelectorInvalid(b, c)
           THEN /\ pc' = "idle"
                /\ err' = Result("InvalidSelector")
                /\ calls' = <<>>
                /\ prev' = NoPrev
           ELSE /\ pc' = "pull_meta"
                /\ err' = Result("running")
                /\ calls' = <<Request("metadata", "", "", "", FALSE)>>
                /\ prev' = IF /\ op = "pull"
                              /\ err.kind \in {"ok"} \cup StoppedAfterContent
                           THEN [ok |-> err.kind = "ok",
                                 stopped |-> err.kind # "ok",
                                 branch |-> args.branch,
                                 commit |-> args.commit, body |-> body]
                           ELSE NoPrev
    /\ meta' = ZeroMeta
    /\ body' = <<>>
    /\ reply' = NoReply
    /\ stamp' = ""
    /\ UNCHANGED disk

\* pull, from the metadata response to the download request
PullSelect ==
    /\ pc = "pull_meta"
    /\ \E mres \in MetaResponses, ioOk \in BOOLEAN :
        LET u == updateMetadata(mres, PullStoreMetadata, ioOk, metaFile)
            e == IF u.err # "" THEN u.err
                 ELSE IF args.branch # "" /\ ~BranchKnown(u.meta, args.branch)
                 THEN "BranchNotFound"
                 ELSE IF args.commit # "" /\ ~CommitKnown(u.meta, args.commit)
                 THEN "CommitNotFound"
                 ELSE ""
        IN  /\ meta' = u.meta
            /\ metaFile' = u.file
            /\ IF e # ""
               THEN /\ pc' = "idle"
                    /\ err' = Result(e)
                    /\ calls' = calls
                    /\ prev' = NoPrev
               ELSE /\ pc' = "pull_content"
                    /\ err' = err
                    /\ calls' = Append(calls,
                          IF args.branch # ""
                          THEN Request("content", args.branch, "", "", FALSE)
                          ELSE Request("content", "", args.commit, "", FALSE))
                    /\ prev' = prev
    /\ UNCHANGED <<op, args, body, reply, wc, cacheDir, cache, commitFile,
                   branchFile, stamp>>

\* The Content-Disposition header after strings.Split(disp, ";"): a sequence
\* of parameters; "" (no header) is the empty sequence.
Param(name, value) == [name |-> name, value |-> value]

Dispositions ==
    { <<>>,
      <<Param("attachment", ""), Param("filename", "sales.db"),
        Param("modification-date", "2018-03-04T05:06:07Z"),
        Param("size", "17")>>,
      <<Param("attachment", ""), Param("filename", "sales.db"),
        Param("modification-date", "yesterday"), Param("size", "17")>>,
      <<Param("attachment", ""), Param("filename", "sales.db"),
        Param("modification-date", "yesterday")>>,
      <<Param("attachment", ""), Param("filename", "sales.db"),
        Param("creation-date", "yesterday"), Param("size", "17")>> }

ParseTimeAny(c) == [ok |-> TRUE, t |-> c]

\* time.Parse(time.RFC3339, c)
ParseTime(c) == [ok |-> c \in {"2018-03-04T05:06:07Z"}, t |-> c]

\* pull: does the header carry a modification-date parameter that is read
HasModificationDate(disp) ==
    /\ disp # <<>>
    /\ Len(disp) = 4
    /\ disp[3].name = "modification-date"

PutEntry(ca, name, bytes) ==
    [n \in DOMAIN ca \cup {name} |-> IF n = name THEN bytes ELSE ca[n]]

EntryBytes(ca, name) == IF name \in DOMAIN ca THEN ca[name] ELSE <<>>

\* pull returns: the command ends with result e and this local state
PullDone(e, cd, ca, w, mf, m) ==
    /\ pc' = "idle"
    /\ err' = e
    /\ cacheDir' = cd
    /\ cache' = ca
    /\ wc' = w
    /\ metaFile' = mf
    /\ meta' = m
    /\ prev' = IF e.kind = "ok" THEN prev ELSE NoPrev
    /\ UNCHANGED <<op, args, calls, reply, commitFile, branchFile>>

\* pull, lines 143-177: the Branch header, saveMetadata, the message
PullSave(ca, w) ==
    \E branchHdr \in {""} \cup BranchNames, ioOk \in BOOLEAN,
       printOk \in BOOLEAN :
        LET m == IF branchHdr # ""
                 THEN [meta EXCEPT !.ActiveBranch = branchHdr] ELSE meta
            s == saveMetadata(m, ioOk, metaFile)
        IN  IF s.err # ""
            THEN PullDone(Result(s.err), TRUE, ca, w, s.file, m)
            ELSE PullDone(Result(IF printOk THEN "ok" ELSE "PrintError"),
                          TRUE, ca, w, s.file, m)

\* pull, lines 122-141: the modification time of the working copy
PullSetTimes(ca, w) ==
    \E disp \in Dispositions :
        IF HasModificationDate(disp)
        THEN LET lastMod == ParseTime(disp[3].value)
             IN  /\ stamp' = disp[3].value
                 /\ IF ~lastMod.ok
                    THEN PullDone(Result("TimeParseError"), TRUE, ca, w,
                                  metaFile, ZeroMeta)
                    ELSE \/ PullDone(Result("ChtimesError"), TRUE, ca, w,
                                     metaFile, ZeroMeta)
                         \/ PullSave(ca, w)
        ELSE /\ stamp' = ""
             /\ PullSave(ca, w)

\* pull, lines 98-120: the cache directory, the cache entry, the working copy
PullWrite(b) ==
    \/ /\ ~cacheDir
       /\ stamp' = ""
       /\ PullDone(Result("MkdirError"), FALSE, cache, wc, metaFile,
                   ZeroMeta)
    \/ \E o \in WriteOutcomes(b) :
        LET name == CacheEntryName(b)
            ca == IF o.opened
                  THEN PutEntry(cache, name,
                                WriteFile(EntryBytes(cache, name), b, o))
                  ELSE cache
        IN  IF ~o.ok
            THEN /\ stamp' = ""
                 /\ PullDone(Result("CacheWriteError"), TRUE, ca, wc,
                             metaFile, ZeroMeta)
            ELSE \E o2 \in WriteOutcomes(b) :
                  LET w == IF o2.opened
                           THEN [exists |-> TRUE,
                                 bytes |-> WriteFile(wc.bytes, b, o2)]
                           ELSE wc
                  IN  IF ~o2.ok
                      THEN /\ stamp' = ""
                           /\ PullDone(Result("WriteError"), TRUE, ca, w,
                                       metaFile, ZeroMeta)
                      ELSE PullSetTimes(ca, w)

\* pull, from the download response to the end
PullStore ==
    /\ pc = "pull_content"
    /\ \/ /\ body' = body
          /\ stamp' = ""
          /\ \/ PullDone(Result("DownloadError"), cacheDir, cache, wc,
                         metaFile, ZeroMeta)
             \/ PullDone([kind |-> IF args.branch # ""
                                   THEN "RemoteBranchNotFound"
                                   ELSE IF args.commit # ""
                                   THEN "RemoteCommitNotFound"
                                   ELSE "RemoteNotFound",
                          status |-> StatusNotFound],
                         cacheDir, cache, wc, metaFile, ZeroMeta)
             \/ \E st \in Statuses \ {StatusOK, StatusNotFound} :
                  PullDone([kind |-> "DownloadFailed", status |-> st],
                           cacheDir, cache, wc, metaFile, ZeroMeta)
       \/ \E b \in Bodies :
          /\ body' = b
          /\ PullWrite(b)

---------------------------------------------------------------------------
(* push *)

\* viper.Get(key): a value that is a string or not
ConfigValues ==
    { [isString |-> FALSE, val |-> ""],
      [isString |-> TRUE, val |-> "cfg"] }

\* push, lines 49-64: the configuration value, replaced by a non-empty flag
Effective(cfg, flag) ==
    LET fromConfig == IF cfg.isString THEN cfg.val ELSE ""
    IN  IF flag # "" THEN flag ELSE fromConfig

PushAuthorMissingBoth(author, email) == author = "" /\ email = ""

\* push: "Both author name and email are required!"
PushAuthorMissing(author, email) == author = "" \/ email = ""

PushMsgMissingNoCheck(msg) == FALSE

\* push: "Commit message is required!"
PushMsgMissing(msg) == msg = ""

\* push, lines 81-96: the pointer file, when it exists, replaces the flag
LoadPointer(file, flag) == IF file.exists THEN file.data ELSE flag

PushDone(e) ==
    /\ pc' = "idle"
    /\ err' = e

\* push, lines 32-74: the file, the author and the message
PushStart ==
    /\ pc = "idle"
    /\ \E cfgA \in ConfigValues, cfgE \in ConfigValues,
          name \in {"", "flag"}, email \in {"", "flag"},
          msg \in {"", "fix"} :
        LET pushAuthor == Effective(cfgA, name)
            pushEmail  == Effective(cfgE, email)
        IN  /\ args' = [ZeroArgs EXCEPT !.msg = msg, !.name = name,
                          !.email = email, !.cfgAuthor = cfgA,
                          !.cfgEmail = cfgE]
            /\ IF ~wc.exists
               THEN PushDone(Result("StatError"))
               ELSE IF PushAuthorMissing(pushAuthor, pushEmail)
               THEN PushDone(Result("AuthorEmailRequired"))
               ELSE IF PushMsgMissing(msg)
               THEN PushDone(Result("MessageRequired"))
               ELSE /\ pc' = "push_valid"
                    /\ err' = Result("running")
    /\ op' = "push"
    /\ calls' = <<>>
    /\ meta' = ZeroMeta
    /\ body' = <<>>
    /\ reply' = NoReply
    /\ prev' = IF op = "pull" /\ err.kind = "ok"
               THEN [ok |-> TRUE, stopped |-> FALSE, branch |-> args.branch,
                     commit |-> args.commit, body |-> body]
               ELSE NoPrev
    /\ stamp' = ""
    /\ UNCHANGED disk

\* push, lines 76-118: the pointers and the upload request.  The author and
\* the email are not sent (lines 112-113) and are dropped from args here.
PushSend ==
    /\ pc = "push_valid"
    /\ \E branch \in BranchNames, commit \in {"", "c1"}, force \in BOOLEAN :
        LET pushCmdBranch == LoadPointer(branchFile, branch)
            pushCmdCommit == LoadPointer(commitFile, commit)
        IN  /\ args' = [ZeroArgs EXCEPT !.msg = args.msg, !.branch = branch,
                          !.commit = commit, !.force = force]
            /\ \/ /\ branchFile.exists \/ commitFile.exists
                  /\ PushDone(Result("ReadError"))
                  /\ calls' = calls
               \/ /\ pc' = "push_sent"
                  /\ err' = err
                  /\ calls' = <<Request("upload", pushCmdBranch,
                                        pushCmdCommit, args.msg, force)>>
    /\ UNCHANGED <<op, meta, body, reply, prev, stamp>>
    /\ UNCHANGED disk

\* A JSON value of the response body
JString(s) == [type |-> "string", s |-> s]
JNumber(s) == [type |-> "number", s |-> s]

PushBodies ==
    { NoReply, [wellformed |-> TRUE, obj |-> EmptyMap] } \cup
    { [wellformed |-> TRUE, obj |-> [k \in {"commit_id"} |-> v]] :
        v \in { JString(c) : c \in CommitIds } \cup { JNumber("7") } }

UnmarshalUnchecked(rb) ==
    [ok |-> TRUE, map |-> [k \in DOMAIN rb.obj |-> rb.obj[k].s]]

\* json.Unmarshal([]byte(body), &parsedResponse), a map[string]string
Unmarshal(rb) ==
    IF rb.wellformed /\ \A k \in DOMAIN rb.obj : rb.obj[k].type = "string"
    THEN [ok |-> TRUE, map |-> [k \in DOMAIN rb.obj |-> rb.obj[k].s]]
    ELSE [ok |-> FALSE, map |-> EmptyMap]

MapGet(m, k) == IF k \in DOMAIN m THEN m[k] ELSE ""

CommitPointerWrongKey(parsed) == MapGet(parsed, "commit")

\* push: []byte(parsedResponse["commit_id"])
CommitPointer(parsed) == MapGet(parsed, "commit_id")

\* The contents a failed write of s can leave
StrPrefixes(s) ==
    IF s = "" THEN {""} ELSE {"", "c", s}

PushRefreshFailedIgnored(u) == FALSE

\* push: meta, err = updateMetadata(file, true); if err != nil
PushRefreshFailed(u) == u.err # ""

\* push, from the upload response to the end
PushFinish ==
    /\ pc = "push_sent"
    /\ \/ /\ PushDone(Result("UploadError"))
          /\ UNCHANGED <<reply, meta, metaFile, commitFile>>
       \/ /\ \E st \in Statuses \ {StatusCreated} :
                PushDone([kind |-> "UploadFailed", status |-> st])
          /\ UNCHANGED <<reply, meta, metaFile, commitFile>>
       \/ \E rb \in PushBodies :
          /\ reply' = rb
          /\ LET parsedResponse == Unmarshal(rb)
             IN  IF ~parsedResponse.ok
                 THEN /\ PushDone(Result("ParseError"))
                      /\ UNCHANGED <<meta, metaFile, commitFile>>
                 ELSE \E mres \in MetaResponses, ioOk \in BOOLEAN :
                      LET u == updateMetadata(mres, TRUE, ioOk, metaFile)
                          id == CommitPointer(parsedResponse.map)
                      IN  /\ meta' = u.meta
                          /\ metaFile' = u.file
                          /\ IF PushRefreshFailed(u)
                             THEN /\ PushDone(Result(u.err))
                                  /\ UNCHANGED commitFile
                             ELSE \/ /\ PushDone(Result("ok"))
                                     /\ commitFile' = [exists |-> TRUE,
                                                       data |-> id]
                                  \/ /\ PushDone(Result("CommitWriteError"))
                                     /\ \/ UNCHANGED commitFile
                                        \/ \E d \in StrPrefixes(id) :
                                            commitFile' = [exists |-> TRUE,
                                                           data |-> d]
    /\ UNCHANGED <<op, args, calls, body, prev, wc, cacheDir, cache,
                   branchFile, stamp>>

---------------------------------------------------------------------------
(* Environment *)

\* The user changes the working-copy file.
EditWorkingCopy ==
    /\ pc = "idle"
    /\ \E b \in Bodies : wc' = [exists |-> TRUE, bytes |-> b]
    /\ pc' = "idle"
    /\ op' = "edit"
    /\ args' = ZeroArgs
    /\ err' = Result("none")
    /\ calls' = <<>>
    /\ meta' = ZeroMeta
    /\ body' = <<>>
    /\ reply' = NoReply
    /\ prev' = NoPrev
    /\ stamp' = ""
    /\ UNCHANGED <<cacheDir, cache, metaFile, commitFile, branchFile>>

\* The running command is killed between two of its steps.
Kill ==
    /\ pc # "idle"
    /\ pc' = "idle"
    /\ err' = Result("Killed")
    /\ prev' = NoPrev
    /\ UNCHANGED <<op, args, calls, meta, body, reply, stamp>>
    /\ UNCHANGED disk

Next ==
    \/ PullStart
    \/ PullSelect
    \/ PullStore
    \/ PushStart
    \/ PushSend
    \/ PushFinish
    \/ EditWorkingCopy
    \/ Kill

Spec == Init /\ [][Next]_vars

\* The pull command alone, and the push command alone
NextPull == PullStart \/ PullSelect \/ PullStore \/ EditWorkingCopy \/ Kill

SpecPull == Init /\ [][NextPull]_vars

NextPush == PushStart \/ PushSend \/ PushFinish \/ EditWorkingCopy \/ Kill

SpecPush == Init /\ [][NextPush]_vars

\* No command has failed
NoFailure == err.kind \in {"none", "running", "ok"}

\* Pulls and pushes of the one database in which every step succeeds
NextSync ==
    \/ PullStart /\ NoFailure'
    \/ PullSelect /\ NoFailure'
    \/ PullStore /\ NoFailure'
    \/ PushStart /\ NoFailure'
    \/ PushSend /\ NoFailure'
    \/ PushFinish /\ NoFailure'
    \/ EditWorkingCopy

SpecSync == Init /\ [][NextSync]_vars

TypeOK ==
    /\ pc \in {"idle", "pull_meta", "pull_content", "push_valid",
              "push_sent"}
    /\ op \in {"none", "pull", "push", "edit"}

---------------------------------------------------------------------------
(* Claims *)

PulledBoth == op = "pull" /\ args.branch # "" /\ args.commit # ""

\* C1: a pull given both a branch and a commit ends with the invalid-selector
\* error for every pair of non-empty values, has sent no request to the
\* remote service, and has written no local state.
C1_InvalidSelectorBeforeNetwork ==
    /\ [](PulledBoth => /\ pc = "idle"
                        /\ err.kind = "InvalidSelector"
                        /\ calls = <<>>)
    /\ [][PulledBoth' => UNCHANGED disk]_vars

C1_Witness ==
    /\ PulledBoth
    /\ args.branch = "dev"
    /\ args.commit = "c1"
    /\ err.kind = "InvalidSelector"
    /\ wc.exists
    /\ cache # EmptyMap

ValidationErrors == {"StatError", "AuthorEmailRequired", "MessageRequired"}

PushedNoMessage == op = "push" /\ args.msg = ""

\* C2: a push with an empty commit message ends with a validation error, has
\* sent no request, and has written no local file, whatever the other
\* arguments and the local tracking state are.
C2_EmptyMessageFails ==
    /\ [](PushedNoMessage => /\ pc = "idle"
                             /\ err.kind \in ValidationErrors
                             /\ calls = <<>>)
    /\ [][PushedNoMessage' => UNCHANGED disk]_vars

C2_Witness ==
    /\ PushedNoMessage
    /\ err.kind = "MessageRequired"
    /\ commitFile.exists
    /\ metaFile.exists

\* The effective value as the claim defines it
C3_Effective(cfg, flag) ==
    IF flag # "" THEN flag ELSE IF cfg.isString THEN cfg.val ELSE ""

\* A step that starts a push
PushStarts == pc = "idle" /\ op' = "push"

\* C3: a push whose effective author name or effective email is empty, or
\* whose working-copy file does not exist, fails in its first step: no
\* request is sent and no local state changes.
C3_AuthorEmailFileRequired ==
    [][(/\ PushStarts
        /\ \/ C3_Effective(args'.cfgAuthor, args'.name) = ""
           \/ C3_Effective(args'.cfgEmail, args'.email) = ""
           \/ ~wc.exists)
       => /\ pc' = "idle"
          /\ err'.kind \in {"StatError", "AuthorEmailRequired"}
          /\ (~wc.exists) <=> (err'.kind = "StatError")
          /\ calls' = <<>>
          /\ UNCHANGED disk]_vars

C3_Witness ==
    /\ op = "push"
    /\ pc = "idle"
    /\ err.kind = "AuthorEmailRequired"
    /\ args.cfgAuthor.isString
    /\ args.name = "flag"
    /\ ~args.cfgEmail.isString
    /\ args.email = ""
    /\ args.msg # ""

PushSucceeded == op = "push" /\ pc = "idle" /\ err.kind = "ok"

\* C4: after a push that completed successfully and whose response carried
\* commit id X, the commit pointer file holds X.
C4_CommitPointerIsReturnedId ==
    (PushSucceeded /\ reply.wellformed /\ "commit_id" \in DOMAIN reply.obj)
    => /\ commitFile.exists
       /\ commitFile.data = reply.obj["commit_id"].s

\* A forced push whose base commit c1 was stale: the remote returned c2
C4_Witness ==
    /\ PushSucceeded
    /\ args.force
    /\ calls[1].commit = "c1"
    /\ "commit_id" \in DOMAIN reply.obj
    /\ reply.obj["commit_id"].s = "c2"
    /\ commitFile.data = "c2"

PullSucceeded == op = "pull" /\ pc = "idle" /\ err.kind = "ok"

\* The last step of a pull
PullEnds == pc = "pull_content" /\ pc' = "idle" /\ op' = "pull"

\* C5: after a successful pull the cache holds the downloaded bytes under
\* the hex digest of exactly those bytes, and that entry is the only one
\* the pull has written.
C5_CacheEntryNamedByDigest ==
    /\ [](PullSucceeded => /\ shaSum(body) \in DOMAIN cache
                           /\ cache[shaSum(body)] = body)
    /\ [][(PullEnds /\ err'.kind = "ok")
          => \A n \in DOMAIN cache' :
                (n \notin DOMAIN cache \/ cache'[n] # cache[n])
                => n = shaSum(body')]_vars

C5_Witness ==
    /\ PullSucceeded
    /\ body # <<>>
    /\ cache[shaSum(body)] = body
    /\ Cardinality(DOMAIN cache) = 2

\* C6: a successful pull that directly follows a successful pull of the same
\* selector, and downloads the same bytes, leaves the cache entries and the
\* working-copy bytes as the first pull left them.
C6_PullTwiceIdempotent ==
    [][(/\ PullEnds
        /\ err'.kind = "ok"
        /\ prev'.ok
        /\ prev'.branch = args'.branch
        /\ prev'.commit = args'.commit
        /\ prev'.body = body')
       => cache' = cache /\ wc' = wc]_vars

C6_Witness ==
    /\ PullSucceeded
    /\ prev.ok
    /\ prev.branch = args.branch
    /\ prev.commit = args.commit
    /\ prev.body = body
    /\ body # <<>>
    /\ wc.bytes = body

\* The invariant of a metadata value, as the claim states it
C7_References(m) ==
    /\ { m.Branches[b] : b \in DOMAIN m.Branches } \subseteq DOMAIN m.Commits
    /\ m.ActiveBranch \in DOMAIN m.Branches \cup {""}

\* C7: the metadata record a pull has saved references only known keys,
\* whatever branch name the Branch header declared.
C7_SavedMetadataValid ==
    metaFile.exists => C7_References(metaFile.meta)

\* The header named a branch that the fetched Branches map does not have:
\* the value was rejected and the record of an earlier pull is still there
C7_Witness ==
    /\ op = "pull"
    /\ pc = "idle"
    /\ err.kind = "InvariantViolation"
    /\ meta.ActiveBranch = "dev"
    /\ DOMAIN meta.Branches = {"master"}
    /\ meta.Branches["master"] \in DOMAIN meta.Commits
    /\ metaFile.exists
    /\ metaFile.meta.ActiveBranch = "master"

\* The metadata was returned and lacks the requested branch or commit
C8_SelectorUnknown ==
    /\ pc = "pull_meta"
    /\ pc' # "pull_meta"
    /\ err'.kind \notin {"MetadataError", "Killed"}
    /\ \/ args.branch # "" /\ args.branch \notin DOMAIN meta'.Branches
       \/ args.commit # "" /\ args.commit \notin DOMAIN meta'.Commits

\* C8: when the returned metadata lacks the requested branch or commit, the
\* pull ends with a not-found error and the metadata request stays the only
\* request it has sent.
C8_NotFoundBeforeDownload ==
    [][C8_SelectorUnknown
       => /\ pc' = "idle"
          /\ err'.kind \in {"BranchNotFound", "CommitNotFound"}
          /\ Len(calls') = 1
          /\ calls'[1].kind = "metadata"
          /\ UNCHANGED disk]_vars

C8_Witness ==
    /\ op = "pull"
    /\ pc = "idle"
    /\ err.kind = "CommitNotFound"
    /\ args.commit = "c1"
    /\ DOMAIN meta.Branches = {"master"}
    /\ DOMAIN meta.Commits = {}
    /\ Len(calls) = 1

\* The downloaded bytes are fully written to the cache and the working copy
ContentWritten ==
    /\ shaSum(body) \in DOMAIN cache
    /\ cache[shaSum(body)] = body
    /\ wc.exists
    /\ wc.bytes = body

\* C9: a step of a pull changes the persisted metadata only when it ends the
\* pull with the cache entry and the working copy fully written; at every
\* other step, failed or killed, the record stays the one from before.
C9_MetadataAfterContent ==
    [][(op' = "pull" /\ metaFile' # metaFile)
       => /\ PullEnds
          /\ err'.kind \in {"ok", "PrintError"}
          /\ ContentWritten']_vars

\* The working-copy write failed half way: the record of the earlier pull,
\* with another active branch, is still in place
C9_Witness ==
    /\ op = "pull"
    /\ pc = "idle"
    /\ err.kind = "WriteError"
    /\ body # <<>>
    /\ wc.exists
    /\ wc.bytes # body
    /\ metaFile.exists
    /\ metaFile.meta.ActiveBranch = "master"
    /\ args.branch = ""

\* C10: a failed pull never leaves the working copy unwritten or partly
\* written while the digest of the downloaded bytes is in the cache.
C10_ContentAllOrNothing ==
    (op = "pull" /\ pc = "idle" /\ err.kind = "WriteError")
    => shaSum(body) \notin DOMAIN cache

\* The results of a pull whose metadata request or download request failed
C11_RequestFailures ==
    {"MetadataError", "DownloadError", "RemoteBranchNotFound",
     "RemoteCommitNotFound", "RemoteNotFound", "DownloadFailed", "Killed"}

\* C11: every step of a pull up to the download response, and the step that
\* ends it because a request failed, was aborted, or was answered 404 or
\* another non-200 status, leaves the working copy, the cache directory, the
\* cache entries and the metadata record as they were; a 404 gives a
\* not-found error and any other status an error that carries the status.
C11_FailedRequestWritesNothing ==
    [][(op' = "pull" /\ (pc' # "idle" \/ err'.kind \in C11_RequestFailures))
       => /\ UNCHANGED disk
          /\ err'.kind = "DownloadFailed"
             => err'.status \in Statuses \ {StatusOK, StatusNotFound}
          /\ err'.status = StatusNotFound
             => err'.kind \in {"RemoteBranchNotFound", "RemoteCommitNotFound",
                               "RemoteNotFound"}]_vars

C11_Witness ==
    /\ op = "pull"
    /\ pc = "idle"
    /\ err.kind = "DownloadFailed"
    /\ err.status = 500
    /\ Len(calls) = 2
    /\ ~wc.exists
    /\ ~cacheDir
    /\ cache = EmptyMap
    /\ ~metaFile.exists

\* C12: a push without the force flag that the remote answered with the
\* conflict status ends with an error other than the one given for the
\* other statuses.
C12_ConflictDistinguished ==
    (op = "push" /\ pc = "idle" /\ err.status = 409 /\ ~args.force)
    => err.kind # "UploadFailed"

\* C13: the upload request carries the --commit value when one was given,
\* and a --branch value other than the default; the pointer files are sent
\* only in place of a value that was not given.
C13_ExplicitSelectorWins ==
    (op = "push" /\ pc = "push_sent")
    => /\ args.commit # "" => calls[1].commit = args.commit
       /\ args.branch # "master" => calls[1].branch = args.branch
       /\ (args.commit = "" /\ commitFile.exists)
          => calls[1].commit = commitFile.data

\* The timestamps that are valid RFC3339
C14_Rfc3339 == {"2018-03-04T05:06:07Z"}

C15_Unparseable(rb) ==
    \/ ~rb.wellformed
    \/ \E k \in DOMAIN rb.obj : rb.obj[k].type # "string"

\* C15: a push that ends on a response with a status other than 201, or
\* with a body that does not parse, ends with the upload or the parse error
\* and leaves the commit pointer, the branch pointer, the metadata record
\* and every other local file as they were.
C15_FailedPushChangesNothing ==
    [][(/\ pc = "push_sent"
        /\ pc' = "idle"
        /\ err'.kind \notin {"UploadError", "Killed"}
        /\ err'.status # 0 \/ C15_Unparseable(reply'))
       => /\ err'.kind \in {"UploadFailed", "ParseError"}
          /\ err'.kind = "UploadFailed"
             <=> err'.status \in Statuses \ {StatusCreated}
          /\ UNCHANGED disk]_vars

\* The remote accepted the upload and sent a number for the commit id: the
\* pointer and the record of the earlier push are still in place
C15_Witness ==
    /\ op = "push"
    /\ pc = "idle"
    /\ err.kind = "ParseError"
    /\ reply.wellformed
    /\ commitFile.exists
    /\ commitFile.data = "c1"
    /\ metaFile.exists

\* C16: a push given no --commit and the default branch, started directly
\* after a successful pull of commit X, sends X as its base commit.
C16_BaseIsLastSync ==
    (/\ op = "push"
     /\ pc = "push_sent"
     /\ args.commit = ""
     /\ args.branch = "master"
     /\ prev.ok
     /\ prev.commit # "")
    => calls[1].commit = prev.commit

\* C17: every entry of the cache is named by the digest of its bytes.
C17_CacheNamesAreDigests ==
    \A n \in DOMAIN cache : shaSum(cache[n]) = n

\* A pull ends directly after a pull of the same selector and bytes that
\* stopped after writing content and before saving the metadata
C18_Rerun ==
    /\ PullEnds
    /\ prev'.stopped
    /\ prev'.branch = args'.branch
    /\ prev'.commit = args'.commit
    /\ prev'.body = body'

\* C18: a pull that stops after writing content changes no cache entry but
\* the one of its bytes; the successful rerun leaves that entry and the
\* working copy holding exactly the downloaded bytes, every other entry as
\* it was, and the metadata of the rerun saved: the state a single
\* successful pull produces.
C18_RerunReconciles ==
    /\ [][(PullEnds /\ err'.kind \in StoppedAfterContent)
          => /\ DOMAIN cache' = DOMAIN cache \cup {shaSum(body')}
             /\ \A n \in DOMAIN cache :
                   n # shaSum(body') => cache'[n] = cache[n]]_vars
    /\ [][(C18_Rerun /\ err'.kind = "ok")
          => /\ DOMAIN cache' = DOMAIN cache
             /\ \A n \in DOMAIN cache :
                   cache'[n] = IF n = shaSum(body') THEN body' ELSE cache[n]
             /\ wc' = [exists |-> TRUE, bytes |-> body']
             /\ metaFile' = [exists |-> TRUE, meta |-> meta']]_vars

C18_Witness ==
    /\ PullSucceeded
    /\ prev.stopped
    /\ prev.branch = args.branch
    /\ prev.commit = args.commit
    /\ prev.body = body
    /\ body # <<>>
    /\ cache[shaSum(body)] = body
    /\ wc.bytes = body
    /\ metaFile.exists

\* The results of a push whose metadata refresh failed
C19_RefreshFailures == {"MetadataError", "IOError", "InvariantViolation"}

\* C19: a step of a push changes the commit pointer only when it ends the
\* push on a body that parsed and with the fetched metadata stored; after a
\* successful push the record is the fetched one; a push whose refresh
\* failed leaves the pointer as it was.
C19_PointerAfterRefresh ==
    /\ [][(op' = "push" /\ commitFile' # commitFile)
          => /\ pc = "push_sent"
             /\ pc' = "idle"
             /\ err'.kind \in {"ok", "CommitWriteError"}
             /\ ~C15_Unparseable(reply')
             /\ metaFile' = [exists |-> TRUE, meta |-> meta']]_vars
    /\ [](PushSucceeded => metaFile = [exists |-> TRUE, meta |-> meta])
    /\ [][(pc = "push_sent" /\ err'.kind \in C19_RefreshFailures)
          => commitFile' = commitFile]_vars

\* The remote accepted the second upload as c2 and the metadata request
\* failed: the pointer still holds c1
C19_Witness ==
    /\ op = "push"
    /\ pc = "idle"
    /\ err.kind = "MetadataError"
    /\ "commit_id" \in DOMAIN reply.obj
    /\ reply.obj["commit_id"].s = "c2"
    /\ commitFile.exists
    /\ commitFile.data = "c1"

====
